---- MODULE Spec2Model ----
(***************************************************************************)
(* FocusFlow time tracker: the task/timer state of App.tsx with its        *)
(* persistence and display-refresh effects, the calendar utilities of      *)
(* utils.ts, the session aggregator of Stats.tsx and the insight service.  *)
(*                                                                         *)
(* Values:  null (JavaScript null) and NaN are the sentinels -1 and -2;    *)
(* task ids (UUIDs) are the integers 1, 2, ...; instants are natural       *)
(* numbers of clock units.                                                 *)
(***************************************************************************)
EXTENDS Integers, Sequences, FiniteSets, TLC

VARIABLES
  \* App.tsx: React state, the interval ref, the browser's live intervals
  \* and localStorage, the clock, the randomUUID sequence, the page's phase
  \* and the history of the latest operation
  tasks, activeTaskId, startTime, currentSessionDuration,
  intervalRef, liveIntervals, storage, now, nextUuid, phase, last,
  \* geminiService.ts: one call of generateProductivityInsight
  insight,
  \* utils.ts: a date and what the week functions return for it
  cal,
  \* Stats.tsx: the period prop, the cursor state, the memoized data, the total
  period, dateCursor, data, totalTime

appVars == <<tasks, activeTaskId, startTime, currentSessionDuration,
             intervalRef, liveIntervals, storage, now, nextUuid, phase, last>>

statsVars == <<period, dateCursor, data, totalTime>>

\* The variables outside App.tsx.
outside == <<insight, cal, statsVars>>

vars == <<appVars, outside>>

\* ------------------------------------------------------------------ bounds
MaxNow == 2
MaxUuid == 4
MaxTasks == 2
MaxClockStep == 1
TicksPerDay == 3
MaxCalDay == 800
CursorSpan == 35
MaxStatTasks == 2
MaxGridYear == 1976
MaxViewUuid == 3

\* ------------------------------------------------------------------ values
null == -1
NaN == -2

\* JavaScript truthiness of a (number | string | null) value: null, NaN and 0
\* are falsy; ids are non-empty strings, hence truthy.
Truthy(v) == v # null /\ v # NaN /\ v # 0

\* COLORS of utils.ts, by index.
COLORS == <<"#3b82f6", "#10b981", "#f59e0b", "#ef4444", "#8b5cf6", "#ec4899", "#06b6d4">>

\* The colours getRandomColor draws in the model (indices into COLORS).
ColorChoices == {1}

\* What the user may have typed in the new-task field.
TitleInputs == {"", " ", "Reading"}

\* String.prototype.trim on the inputs above.
Trim(s) == IF s = " " THEN "" ELSE s

\* ------------------------------------------------------------------ strings
DigitChars == <<"0", "1", "2", "3", "4", "5", "6", "7", "8", "9">>

IsDigit(c) == \E i \in 1..10 : DigitChars[i] = c

DigitValue(c) == (CHOOSE i \in 1..10 : DigitChars[i] = c) - 1

RECURSIVE toString(_)
\* Number.prototype.toString, base 10, of an integer.
toString(n) ==
  IF n < 0 THEN <<"-">> \o toString(-n)
  ELSE IF n < 10 THEN <<DigitChars[n + 1]>>
  ELSE toString(n \div 10) \o <<DigitChars[(n % 10) + 1]>>

RECURSIVE LeadingDigits(_)
\* The longest prefix of s made of decimal digits.
LeadingDigits(s) ==
  IF s = <<>> \/ ~IsDigit(Head(s)) THEN <<>>
  ELSE <<Head(s)>> \o LeadingDigits(Tail(s))

RECURSIVE DigitsValue(_, _)
DigitsValue(s, acc) ==
  IF s = <<>> THEN acc ELSE DigitsValue(Tail(s), acc * 10 + DigitValue(Head(s)))

\* parseInt(s, 10): optional sign, then the leading digits; NaN without any.
parseInt(s) ==
  LET neg == s # <<>> /\ Head(s) = "-"
      body == IF s # <<>> /\ Head(s) \in {"-", "+"} THEN Tail(s) ELSE s
      ds == LeadingDigits(body)
  IN  IF ds = <<>> THEN NaN
      ELSE IF neg THEN 0 - DigitsValue(ds, 0) ELSE DigitsValue(ds, 0)

\* ------------------------------------------------------------------ JSON
\* A JSON number or null as text.
JsonNum(v) == IF v = null THEN <<"n", "u", "l", "l">> ELSE toString(v)

UnJsonNum(t) == IF t = <<"n", "u", "l", "l">> THEN null ELSE parseInt(t)

SeqMap(Op(_), s) == [i \in 1..Len(s) |-> Op(s[i])]

JsonSession(s) ==
  [id |-> toString(s.id), startTime |-> JsonNum(s.startTime),
   endTime |-> JsonNum(s.endTime), duration |-> JsonNum(s.duration)]

UnJsonSession(j) ==
  [id |-> parseInt(j.id), startTime |-> UnJsonNum(j.startTime),
   endTime |-> UnJsonNum(j.endTime), duration |-> UnJsonNum(j.duration)]

JsonTask(t) ==
  [id |-> toString(t.id), title |-> t.title, color |-> t.color,
   sessions |-> SeqMap(JsonSession, t.sessions), createdAt |-> JsonNum(t.createdAt)]

UnJsonTask(j) ==
  [id |-> parseInt(j.id), title |-> j.title, color |-> j.color,
   sessions |-> SeqMap(UnJsonSession, j.sessions), createdAt |-> UnJsonNum(j.createdAt)]

\* JSON.stringify(tasks): the text of an array of task objects.
JSONstringify(ts) == [kind |-> "array", items |-> SeqMap(JsonTask, ts)]

\* Texts JSON.parse rejects with a SyntaxError.
JSONthrows(text) == text.kind = "invalid"

\* JSON.parse of a text that holds an array of tasks.
JSONparse(text) == SeqMap(UnJsonTask, text.items)

\* ------------------------------------------------------------------ storage
\* localStorage: each key is absent (getItem gives null) or holds a text.
\* The three keys hold a JSON text, an id and a string of characters.
Holds(text) == [present |-> TRUE, text |-> text]
NoTasksItem == [present |-> FALSE, text |-> [kind |-> "empty", items |-> <<>>]]
NoIdItem == [present |-> FALSE, text |-> null]
NoTimeItem == [present |-> FALSE, text |-> <<>>]

EmptyStorage == [focusflow_tasks |-> NoTasksItem, focusflow_active_id |-> NoIdItem,
                 focusflow_start_time |-> NoTimeItem]

\* ------------------------------------------------------------------ state
\* The React state one render closes over; uuid is the next value
\* crypto.randomUUID returns (1, 2, ...: never one it returned before).
Rendered ==
  [tasks |-> tasks, activeTaskId |-> activeTaskId, startTime |-> startTime,
   currentSessionDuration |-> currentSessionDuration, uuid |-> nextUuid]

TaskIds(ts) == {ts[i].id : i \in 1..Len(ts)}

\* stopTimer as it would be without setStartTime(null).
stopTimer_KeepsStartTime(cl, q, endTime) ==
  IF ~Truthy(cl.activeTaskId) \/ ~Truthy(cl.startTime) THEN q
  ELSE
    LET duration == endTime - cl.startTime
        session == [id |-> q.uuid, startTime |-> cl.startTime,
                    endTime |-> endTime, duration |-> duration]
        appended == [i \in 1..Len(q.tasks) |->
                       IF q.tasks[i].id = cl.activeTaskId
                       THEN [q.tasks[i] EXCEPT !.sessions = Append(@, session)]
                       ELSE q.tasks[i]]
    IN  [q EXCEPT !.tasks = appended, !.activeTaskId = null,
                  !.currentSessionDuration = 0, !.uuid = @ + 1]

\* stopTimer as it would be if the new session were put first in the list.
stopTimer_Prepend(cl, q, endTime) ==
  IF ~Truthy(cl.activeTaskId) \/ ~Truthy(cl.startTime) THEN q
  ELSE
    LET duration == endTime - cl.startTime
        session == [id |-> q.uuid, startTime |-> cl.startTime,
                    endTime |-> endTime, duration |-> duration]
        appended == [i \in 1..Len(q.tasks) |->
                       IF q.tasks[i].id = cl.activeTaskId
                       THEN [q.tasks[i] EXCEPT !.sessions = <<session>> \o @]
                       ELSE q.tasks[i]]
    IN  [q EXCEPT !.tasks = appended, !.activeTaskId = null, !.startTime = null,
                  !.currentSessionDuration = 0, !.uuid = @ + 1]

\* stopTimer as it would be if the duration were the last polled elapsed value.
stopTimer_PolledDuration(cl, q, endTime) ==
  IF ~Truthy(cl.activeTaskId) \/ ~Truthy(cl.startTime) THEN q
  ELSE
    LET session == [id |-> q.uuid, startTime |-> cl.startTime,
                    endTime |-> endTime, duration |-> cl.currentSessionDuration]
        appended == [i \in 1..Len(q.tasks) |->
                       IF q.tasks[i].id = cl.activeTaskId
                       THEN [q.tasks[i] EXCEPT !.sessions = Append(@, session)]
                       ELSE q.tasks[i]]
    IN  [q EXCEPT !.tasks = appended, !.activeTaskId = null, !.startTime = null,
                  !.currentSessionDuration = 0, !.uuid = @ + 1]

\* stopTimer, called from a render that closed over cl, with the state updates
\* queued so far applied in q; endTime is what its Date.now() returns.
stopTimer(cl, q, endTime) ==
  IF ~Truthy(cl.activeTaskId) \/ ~Truthy(cl.startTime) THEN q
  ELSE
    LET duration == endTime - cl.startTime
        session == [id |-> q.uuid, startTime |-> cl.startTime,
                    endTime |-> endTime, duration |-> duration]
        appended == [i \in 1..Len(q.tasks) |->
                       IF q.tasks[i].id = cl.activeTaskId
                       THEN [q.tasks[i] EXCEPT !.sessions = Append(@, session)]
                       ELSE q.tasks[i]]
    IN  [q EXCEPT !.tasks = appended, !.activeTaskId = null, !.startTime = null,
                  !.currentSessionDuration = 0, !.uuid = @ + 1]

\* addTask: a blank title is ignored; else a task with no sessions is appended.
addTask(cl, newTaskName, color, createdAt) ==
  IF Trim(newTaskName) = "" THEN cl
  ELSE
    LET newTask == [id |-> cl.uuid, title |-> newTaskName, color |-> COLORS[color],
                    sessions |-> <<>>, createdAt |-> createdAt]
    IN  [cl EXCEPT !.tasks = Append(cl.tasks, newTask), !.uuid = @ + 1]

\* deleteTask as it would be without the implicit stop of the active task.
deleteTask_NoStop(cl, id, t) ==
  [cl EXCEPT !.tasks = SelectSeq(cl.tasks, LAMBDA x : x.id # id)]

\* deleteTask: setTasks receives the filtered list of the render's own tasks,
\* after (and so replacing) the functional update queued by stopTimer.
deleteTask(cl, id, t) ==
  LET q == IF cl.activeTaskId = id THEN stopTimer(cl, cl, t) ELSE cl
  IN  [q EXCEPT !.tasks = SelectSeq(cl.tasks, LAMBDA x : x.id # id)]

\* startTimer as it would be if the new run were dated from the start of the
\* run it replaces.
startTimer_Backdated(cl, taskId, t1, t2) ==
  LET q == IF Truthy(cl.activeTaskId) THEN stopTimer(cl, cl, t1) ELSE cl
  IN  [q EXCEPT !.activeTaskId = taskId,
                !.startTime = IF Truthy(cl.startTime) THEN cl.startTime ELSE t2]

\* startTimer as it would be if the session were stored, open, when it begins.
startTimer_OpenSession(cl, taskId, t1, t2) ==
  LET q == IF Truthy(cl.activeTaskId) THEN stopTimer(cl, cl, t1) ELSE cl
      session == [id |-> q.uuid, startTime |-> t2, endTime |-> null, duration |-> 0]
      opened == [i \in 1..Len(q.tasks) |->
                   IF q.tasks[i].id = taskId
                   THEN [q.tasks[i] EXCEPT !.sessions = Append(@, session)]
                   ELSE q.tasks[i]]
  IN  [q EXCEPT !.tasks = opened, !.activeTaskId = taskId, !.startTime = t2,
                !.uuid = @ + 1]

\* startTimer as it would be without the implicit stop.
startTimer_NoStop(cl, taskId, t1, t2) ==
  [cl EXCEPT !.activeTaskId = taskId, !.startTime = t2]

\* startTimer: t1 is the instant stopTimer reads, t2 the one startTimer reads.
startTimer(cl, taskId, t1, t2) ==
  LET q == IF Truthy(cl.activeTaskId) THEN stopTimer(cl, cl, t1) ELSE cl
  IN  [q EXCEPT !.activeTaskId = taskId, !.startTime = t2]

toggleTimer(cl, taskId, t1, t2) ==
  IF cl.activeTaskId = taskId THEN stopTimer(cl, cl, t1)
  ELSE startTimer(cl, taskId, t1, t2)

\* ------------------------------------------------------------------ effects
\* The persistence effects as they would be without the removeItem branches.
PersistEffects_NoRemove(st, cl, q, mounting) ==
  [focusflow_tasks |->
     IF mounting \/ q.tasks # cl.tasks
     THEN Holds(JSONstringify(q.tasks)) ELSE st.focusflow_tasks,
   focusflow_active_id |->
     IF (mounting \/ q.activeTaskId # cl.activeTaskId) /\ Truthy(q.activeTaskId)
     THEN Holds(q.activeTaskId) ELSE st.focusflow_active_id,
   focusflow_start_time |->
     IF (mounting \/ q.startTime # cl.startTime) /\ Truthy(q.startTime)
     THEN Holds(toString(q.startTime)) ELSE st.focusflow_start_time]

\* The three persistence effects; each runs when its dependency changed
\* (always, when mounting).
PersistEffects(st, cl, q, mounting) ==
  [focusflow_tasks |->
     IF mounting \/ q.tasks # cl.tasks
     THEN Holds(JSONstringify(q.tasks)) ELSE st.focusflow_tasks,
   focusflow_active_id |->
     IF mounting \/ q.activeTaskId # cl.activeTaskId
     THEN (IF Truthy(q.activeTaskId) THEN Holds(q.activeTaskId) ELSE NoIdItem)
     ELSE st.focusflow_active_id,
   focusflow_start_time |->
     IF mounting \/ q.startTime # cl.startTime
     THEN (IF Truthy(q.startTime) THEN Holds(toString(q.startTime)) ELSE NoTimeItem)
     ELSE st.focusflow_start_time]

Handles(live) == {iv.handle : iv \in live}

\* clearInterval(h): cancels the interval h names, if it is still live.
clearInterval(live, h) == {iv \in live : iv.handle # h}

\* window.setInterval returns a handle that names no live interval; the model
\* takes the least one that is neither live nor still held in intervalRef.
FreshHandle(ref, live) ==
  CHOOSE h \in 1..(Cardinality(live) + 2) :
    /\ h \notin Handles(live) \cup {ref}
    /\ \A k \in 1..(h - 1) : k \in Handles(live) \cup {ref}

\* The display-refresh effect as it would be without the cleanup function.
IntervalEffect_NoCleanup(ref, live, cl, q, mounting) ==
  IF ~mounting /\ q.activeTaskId = cl.activeTaskId /\ q.startTime = cl.startTime
  THEN [ref |-> ref, live |-> live, csd |-> q.currentSessionDuration]
  ELSE
    IF Truthy(q.activeTaskId) /\ Truthy(q.startTime)
    THEN LET h == FreshHandle(ref, live)
         IN  [ref |-> h,
              live |-> live \cup {[handle |-> h, startTime |-> q.startTime]},
              csd |-> q.currentSessionDuration]
    ELSE [ref |-> ref,
          live |-> IF Truthy(ref) THEN clearInterval(live, ref) ELSE live,
          csd |-> 0]

\* The display-refresh effect on [activeTaskId, startTime]: the previous
\* run's cleanup, then the effect body.  An interval closes over startTime.
IntervalEffect(ref, live, cl, q, mounting) ==
  IF ~mounting /\ q.activeTaskId = cl.activeTaskId /\ q.startTime = cl.startTime
  THEN [ref |-> ref, live |-> live, csd |-> q.currentSessionDuration]
  ELSE
    LET cleaned == IF ~mounting /\ Truthy(ref) THEN clearInterval(live, ref) ELSE live
    IN  IF Truthy(q.activeTaskId) /\ Truthy(q.startTime)
        THEN LET h == FreshHandle(ref, cleaned)
             IN  [ref |-> h,
                  live |-> cleaned \cup {[handle |-> h, startTime |-> q.startTime]},
                  csd |-> q.currentSessionDuration]
        ELSE [ref |-> ref,
              live |-> IF Truthy(ref) THEN clearInterval(cleaned, ref) ELSE cleaned,
              csd |-> 0]

\* last is the history of the latest operation: its name and argument, the
\* state it ran in (pre), the clock at its first read (at) and when it returned
\* (ret), and whether the operation before it was a reload (afterReload).
\* One handler ran in the render cl and queued the updates that give q; React
\* commits them and runs the effects.  t is the clock when the handler returns.
Commit(op, arg, q, t) ==
  LET cl == Rendered
      ie == IntervalEffect(intervalRef, liveIntervals, cl, q, FALSE)
  IN  /\ q.uuid <= MaxUuid + 1
      /\ Len(q.tasks) <= MaxTasks
      /\ t <= MaxNow
      /\ tasks' = q.tasks
      /\ activeTaskId' = q.activeTaskId
      /\ startTime' = q.startTime
      /\ currentSessionDuration' = ie.csd
      /\ intervalRef' = ie.ref
      /\ liveIntervals' = ie.live
      /\ storage' = PersistEffects(storage, cl, q, FALSE)
      /\ nextUuid' = q.uuid
      /\ now' = t
      /\ last' = [op |-> op, arg |-> arg, pre |-> cl, at |-> now, ret |-> t,
                  afterReload |-> last.op = "reload"]
      /\ UNCHANGED <<phase, outside>>

\* ------------------------------------------------------------------ load
\* The useState initializers: what a page load reads from storage st.
LoadThrows(st) ==
  /\ st.focusflow_tasks.present
  /\ st.focusflow_tasks.text.kind # "empty"
  /\ JSONthrows(st.focusflow_tasks.text)

Load(st) ==
  [tasks |->
     IF st.focusflow_tasks.present /\ st.focusflow_tasks.text.kind # "empty"
     THEN JSONparse(st.focusflow_tasks.text) ELSE <<>>,
   activeTaskId |->
     IF st.focusflow_active_id.present THEN st.focusflow_active_id.text ELSE null,
   startTime |->
     IF st.focusflow_start_time.present /\ st.focusflow_start_time.text # <<>>
     THEN parseInt(st.focusflow_start_time.text) ELSE null,
   currentSessionDuration |-> 0]

NoRender == [tasks |-> <<>>, activeTaskId |-> null, startTime |-> null,
             currentSessionDuration |-> 0, uuid |-> 1]

\* The page loads with storage st at instant t: the initializers, the first
\* render and the mount effects; a throwing initializer leaves no application.
\* The result names the value of every variable after the load.
PageLoad(st, uuid, t, op, pre) ==
  IF LoadThrows(st)
  THEN [phase |-> "crashed", tasks |-> <<>>, activeTaskId |-> null,
        startTime |-> null, currentSessionDuration |-> 0, intervalRef |-> null,
        liveIntervals |-> {}, storage |-> st, nextUuid |-> uuid, now |-> t,
        last |-> [op |-> op, arg |-> null, pre |-> pre, at |-> t, ret |-> t,
                  afterReload |-> FALSE]]
  ELSE
    LET q == Load(st) @@ [uuid |-> uuid]
        ie == IntervalEffect(null, {}, q, q, TRUE)
    IN  [phase |-> "mounted", tasks |-> q.tasks, activeTaskId |-> q.activeTaskId,
         startTime |-> q.startTime, currentSessionDuration |-> ie.csd,
         intervalRef |-> ie.ref, liveIntervals |-> ie.live,
         storage |-> PersistEffects(st, q, q, TRUE), nextUuid |-> uuid, now |-> t,
         last |-> [op |-> op, arg |-> null, pre |-> pre, at |-> t, ret |-> t,
                  afterReload |-> FALSE]]

\* ------------------------------------------------------------------ Date
\* A Date is an instant: a number of clock units since the local midnight that
\* began 1 January 1970 (a Thursday).  A day has TicksPerDay units; the last
\* unit of a day is its 23:59:59.999.  Months count from 0, as in JavaScript.
Day(t) == t \div TicksPerDay
TimeOfDay(t) == t % TicksPerDay
EndOfDayTime == TicksPerDay - 1

IsLeap(y) == (y % 4 = 0 /\ y % 100 # 0) \/ y % 400 = 0
DaysInYear(y) == IF IsLeap(y) THEN 366 ELSE 365
RECURSIVE YearStart(_)
\* The day number of 1 January of year y.
YearStart(y) ==
  IF y = 1970 THEN 0
  ELSE IF y > 1970 THEN YearStart(y - 1) + DaysInYear(y - 1)
  ELSE YearStart(y + 1) - DaysInYear(y)

\* The days of a year before the first day of month m (0..12).
DaysBeforeMonth(m, leap) ==
  <<0, 31, 59, 90, 120, 151, 181, 212, 243, 273, 304, 334, 365>>[m + 1]
    + (IF leap /\ m > 1 THEN 1 ELSE 0)

\* The day number of the first day of month m (0..11) of year y.
MonthStart(y, m) == YearStart(y) + DaysBeforeMonth(m, IsLeap(y))

RECURSIVE YearOfDay(_, _)
YearOfDay(day, y) ==
  IF day < YearStart(y) THEN YearOfDay(day, y - 1)
  ELSE IF day >= YearStart(y + 1) THEN YearOfDay(day, y + 1)
  ELSE y

\* The month (0..11) of year y that holds the day.
MonthOfDay(day, y) ==
  LET offset == day - YearStart(y)
      leap == IsLeap(y)
  IN  CHOOSE m \in 0..11 :
        /\ DaysBeforeMonth(m, leap) <= offset
        /\ offset < DaysBeforeMonth(m + 1, leap)

getFullYear(t) == YearOfDay(Day(t), 1970)
getMonth(t) == MonthOfDay(Day(t), getFullYear(t))
getDate(t) == Day(t) - MonthStart(getFullYear(t), getMonth(t)) + 1
getDay(t) == (Day(t) + 4) % 7

\* new Date(year, month, date) with a time of day: a month outside 0..11 and a
\* date outside the month carry over into the neighbouring months and years.
MakeDate(year, month, date, tod) ==
  LET y == year + (month \div 12)
      m == month % 12
  IN  (MonthStart(y, m) + date - 1) * TicksPerDay + tod

setDate(t, date) == MakeDate(getFullYear(t), getMonth(t), date, TimeOfDay(t))
setMonth(t, month) == MakeDate(getFullYear(t), month, getDate(t), TimeOfDay(t))
setHours(t, tod) == Day(t) * TicksPerDay + tod

\* isSameDay of utils.ts.
isSameDay(d1, d2) ==
  /\ getFullYear(d1) = getFullYear(d2)
  /\ getMonth(d1) = getMonth(d2)
  /\ getDate(d1) = getDate(d2)

\* getStartOfWeek as it would be without the adjustment for Sundays.
getStartOfWeek_NoSundayCase(date) ==
  LET day == getDay(date)
      diff == getDate(date) - day + 1
  IN  setHours(setDate(date, diff), 0)

\* getStartOfWeek of utils.ts.
getStartOfWeek(date) ==
  LET day == getDay(date)
      diff == getDate(date) - day + (IF day = 0 THEN -6 ELSE 1)
  IN  setHours(setDate(date, diff), 0)

\* getEndOfWeek of utils.ts.
getEndOfWeek(date) ==
  LET start == getStartOfWeek(date)
  IN  setHours(setDate(start, getDate(start) + 6), EndOfDayTime)

\* getStartOfMonth of utils.ts.
getStartOfMonth(date) == MakeDate(getFullYear(date), getMonth(date), 1, 0)

\* getEndOfMonth of utils.ts.
getEndOfMonth(date) ==
  setHours(MakeDate(getFullYear(date), getMonth(date) + 1, 0, 0), EndOfDayTime)

\* getCalendarGrid as it would be if the grid began on the 1st of the month.
getCalendarGrid_FromTheFirst(year, month) ==
  LET firstDayOfMonth == MakeDate(year, month, 1, 0)
      startDate == firstDayOfMonth
  IN  [i \in 1..42 |-> setDate(startDate, getDate(startDate) + (i - 1))]

\* getCalendarGrid of utils.ts: cell i of the grid is element i + 1.  The
\* years are those getFullYear gives for the dates of the model (the Date
\* constructor's rule for the years 0..99 is not needed for them).
getCalendarGrid(year, month) ==
  LET firstDayOfMonth == MakeDate(year, month, 1, 0)
      startDayOfWeek == getDay(firstDayOfMonth)
      startDate == setDate(firstDayOfMonth, getDate(firstDayOfMonth) - startDayOfWeek)
  IN  [i \in 1..42 |-> setDate(startDate, getDate(startDate) + (i - 1))]

\* No calendar function has been applied.
NoCal == [date |-> 0, startOfWeek |-> 0, endOfWeek |-> 0, applied |-> {}]

\* ------------------------------------------------------------------ aggregator
Periods == {"Today", "Week", "Month"}

\* The filter as it would be if a session were attributed by its end.
relevantSession_ByEnd(session, p, cursor) ==
  IF ~Truthy(session.endTime) THEN FALSE
  ELSE
    LET sessionDate == session.endTime
    IN  CASE p = "Today" -> isSameDay(sessionDate, cursor)
          [] p = "Week" -> /\ sessionDate >= getStartOfWeek(cursor)
                           /\ sessionDate <= getEndOfWeek(cursor)
          [] p = "Month" -> /\ sessionDate >= getStartOfMonth(cursor)
                            /\ sessionDate <= getEndOfMonth(cursor)
          [] OTHER -> TRUE

\* The filter of Stats.data: does the session count for the period at the cursor?
relevantSession(session, p, cursor) ==
  IF ~Truthy(session.endTime) THEN FALSE
  ELSE
    LET sessionDate == session.startTime
    IN  CASE p = "Today" -> isSameDay(sessionDate, cursor)
          [] p = "Week" -> /\ sessionDate >= getStartOfWeek(cursor)
                           /\ sessionDate <= getEndOfWeek(cursor)
          [] p = "Month" -> /\ sessionDate >= getStartOfMonth(cursor)
                            /\ sessionDate <= getEndOfMonth(cursor)
          [] OTHER -> TRUE

RECURSIVE reduceDuration(_)
\* sessions.reduce((acc, s) => acc + s.duration, 0)
reduceDuration(sessions) ==
  IF sessions = <<>> THEN 0
  ELSE reduceDuration(SubSeq(sessions, 1, Len(sessions) - 1))
       + sessions[Len(sessions)].duration

\* The map of Stats.data: the task with its periodDuration.
withPeriodDuration(task, p, cursor) ==
  LET relevantSessions ==
        SelectSeq(task.sessions, LAMBDA x : relevantSession(x, p, cursor))
  IN  [id |-> task.id, title |-> task.title, color |-> task.color,
       sessions |-> task.sessions, createdAt |-> task.createdAt,
       periodDuration |-> reduceDuration(relevantSessions)]

\* The comparator of Stats.data.
compareFn(a, b) == b.periodDuration - a.periodDuration

\* The insertion as it would be in a sort that is not stable: x goes before
\* the elements the comparator calls equal to it.
InsertSorted_Unstable(sorted, x) ==
  LET later == {k \in 1..Len(sorted) : compareFn(sorted[k], x) >= 0}
      at == IF later = {} THEN Len(sorted) + 1
            ELSE CHOOSE k \in later : \A j \in later : k <= j
  IN  SubSeq(sorted, 1, at - 1) \o <<x>> \o SubSeq(sorted, at, Len(sorted))

\* x put into the sorted sequence before the first element that the
\* comparator orders after it.
InsertSorted(sorted, x) ==
  LET later == {k \in 1..Len(sorted) : compareFn(sorted[k], x) > 0}
      at == IF later = {} THEN Len(sorted) + 1
            ELSE CHOOSE k \in later : \A j \in later : k <= j
  IN  SubSeq(sorted, 1, at - 1) \o <<x>> \o SubSeq(sorted, at, Len(sorted))

RECURSIVE sort(_)
\* Array.prototype.sort with compareFn: a stable sort.
sort(seq) ==
  IF seq = <<>> THEN <<>>
  ELSE InsertSorted(sort(SubSeq(seq, 1, Len(seq) - 1)), seq[Len(seq)])

\* Stats.data.
Data(ts, p, cursor) ==
  LET mapped == [i \in 1..Len(ts) |-> withPeriodDuration(ts[i], p, cursor)]
      filteredTasks == SelectSeq(mapped, LAMBDA t : t.periodDuration > 0)
  IN  sort(filteredTasks)

RECURSIVE TotalTime(_)
\* Stats.totalTime: data.reduce((acc, curr) => acc + curr.periodDuration, 0)
TotalTime(d) ==
  IF d = <<>> THEN 0
  ELSE TotalTime(SubSeq(d, 1, Len(d) - 1)) + d[Len(d)].periodDuration

\* ------------------------------------------------------------------ insight
\* No call of generateProductivityInsight is under way.
NotCalled == [pc |-> "none", apiKey |-> "", tasks |-> <<>>, period |-> "",
              prompt |-> <<>>, requests |-> 0,
              result |-> [kind |-> "pending", value |-> ""]]

\* formatDurationHuman(ms) of utils.ts, as a sequence of text pieces; "h" and
\* "m" stand for the two unit words of the source, which are not ASCII.
formatDurationHuman(ms) ==
  LET hours == ms \div (1000 * 60 * 60)
      minutes == (ms \div (1000 * 60)) % 60
  IN  IF hours > 0
      THEN toString(hours) \o <<"h", " ">> \o toString(minutes) \o <<"m">>
      ELSE toString(minutes) \o <<"m">>

RECURSIVE SumDurations(_)
\* sessions.reduce((acc, s) => acc + (s.duration || 0), 0)
SumDurations(sessions) ==
  IF sessions = <<>> THEN 0
  ELSE SumDurations(SubSeq(sessions, 1, Len(sessions) - 1))
       + (IF Truthy(sessions[Len(sessions)].duration)
          THEN sessions[Len(sessions)].duration ELSE 0)

RECURSIVE Summary(_)
\* tasks.map(t => `${t.title}: ${formatDurationHuman(totalTime)}`).join(', ')
Summary(ts) ==
  IF ts = <<>> THEN <<>>
  ELSE LET item == <<Head(ts).title, ": ">>
                     \o formatDurationHuman(SumDurations(Head(ts).sessions))
       IN  IF Len(ts) = 1 THEN item ELSE item \o <<", ">> \o Summary(Tail(ts))

FallbackEmpty == "Unable to generate insight at this time."
FallbackError == "An error occurred while fetching insights."

\* Values of process.env.API_KEY: undefined, the empty string, a key.
ApiKeys == {"undefined", "", "key"}

KeyTruthy(k) == k \notin {"undefined", ""}

\* The period labels a caller passes.
PeriodLabels == {"Today", "Week", "Month"}

\* Task lists a caller passes (durations in milliseconds).
InsightTaskLists ==
  LET reading == [id |-> 1, title |-> "Reading", color |-> COLORS[1], createdAt |-> 1,
                  sessions |-> << [id |-> 3, startTime |-> 1, endTime |-> 125001,
                                   duration |-> 125000] >>]
      writing == [id |-> 2, title |-> "Writing", color |-> COLORS[7], createdAt |-> 1,
                  sessions |-> << [id |-> 4, startTime |-> 1, endTime |-> 3661001,
                                   duration |-> 3661000],
                                  [id |-> 5, startTime |-> 3661001,
                                   endTime |-> 3661001, duration |-> 0] >>]
  IN  {<<>>, <<reading>>, <<writing>>, <<reading, writing>>}

\* What ai.models.generateContent may do: answer with a text, answer without
\* one, or fail.
ServiceOutcomes == {"text", "empty", "error"}

\* generateProductivityInsight up to its await: the key check throws out of
\* the async function (the promise rejects); otherwise one request is sent.
InsightCall ==
  /\ insight.pc = "called"
  /\ insight' =
       IF ~KeyTruthy(insight.apiKey)
       THEN [insight EXCEPT !.pc = "done",
                            !.result = [kind |-> "rejected",
                                        value |-> "API Key not found"]]
       ELSE [insight EXCEPT !.pc = "awaiting",
                            !.prompt = <<insight.period>> \o Summary(insight.tasks),
                            !.requests = @ + 1]
  /\ UNCHANGED <<appVars, cal, statsVars>>

\* The await completes: the text, or a fallback for an empty answer or a
\* caught error.
InsightSettle ==
  /\ insight.pc = "awaiting"
  /\ \E outcome \in ServiceOutcomes :
       insight' =
         [insight EXCEPT
            !.pc = "done",
            !.result =
              [kind |-> "resolved",
               value |-> CASE outcome = "text" -> "insight text"
                           [] outcome = "empty" -> FallbackEmpty
                           [] outcome = "error" -> FallbackError]]
  /\ UNCHANGED <<appVars, cal, statsVars>>

\* ------------------------------------------------------------------ actions
\* The form is submitted with some text in the field.
AddTask ==
  /\ phase = "mounted"
  /\ \E newTaskName \in TitleInputs, color \in ColorChoices :
       Commit("add", null, addTask(Rendered, newTaskName, color, now), now)

\* The trash button of a listed task.
DeleteTask ==
  /\ phase = "mounted"
  /\ \E id \in TaskIds(tasks) :
       Commit("delete", id, deleteTask(Rendered, id, now), now)

\* The clock may advance between the two Date.now() reads of one handler.
SecondRead == {t \in now..(now + MaxClockStep) : t <= MaxNow}

\* stop(), whatever the state.
StopTimer ==
  /\ phase = "mounted"
  /\ Commit("stop", null, stopTimer(Rendered, Rendered, now), now)

\* The play/pause button of a listed task: stop() when it is the active one,
\* start(taskId) when it is not.
ToggleTimer ==
  /\ phase = "mounted"
  /\ \E taskId \in TaskIds(tasks), t2 \in SecondRead :
       /\ (t2 # now) =>
            (activeTaskId # taskId /\ Truthy(activeTaskId) /\ Truthy(startTime))
       /\ Commit("toggle", taskId, toggleTimer(Rendered, taskId, now, t2), t2)

\* A live interval fires: its callback sets the elapsed time from the start
\* instant it closed over.
IntervalTick ==
  /\ phase = "mounted"
  /\ \E iv \in liveIntervals :
       /\ currentSessionDuration' = now - iv.startTime
       /\ last' = [op |-> "tick", arg |-> iv.startTime, pre |-> Rendered, at |-> now,
                   ret |-> now, afterReload |-> last.op = "reload"]
  /\ UNCHANGED <<tasks, activeTaskId, startTime, intervalRef, liveIntervals,
                 storage, now, nextUuid, phase, outside>>

\* Time passes.
AdvanceClock ==
  /\ now < MaxNow
  /\ now' = now + 1
  /\ UNCHANGED <<tasks, activeTaskId, startTime, currentSessionDuration,
                 intervalRef, liveIntervals, storage, nextUuid, phase, last,
                 outside>>

\* The component unmounts: the cleanup of the interval effect runs.
Unmount ==
  /\ phase = "mounted"
  /\ phase' = "unmounted"
  /\ liveIntervals' = IF Truthy(intervalRef)
                      THEN clearInterval(liveIntervals, intervalRef)
                      ELSE liveIntervals
  /\ last' = [op |-> "unmount", arg |-> null, pre |-> Rendered, at |-> now,
              ret |-> now, afterReload |-> last.op = "reload"]
  /\ UNCHANGED <<tasks, activeTaskId, startTime, currentSessionDuration,
                 intervalRef, storage, now, nextUuid, outside>>

\* The page is loaded again: every interval of the old page is gone and the
\* state is read back from storage.
Reload ==
  /\ phase \in {"mounted", "unmounted"}
  /\ LET b == PageLoad(storage, nextUuid, now, "reload", Rendered)
     IN  /\ phase' = b.phase
         /\ tasks' = b.tasks
         /\ activeTaskId' = b.activeTaskId
         /\ startTime' = b.startTime
         /\ currentSessionDuration' = b.currentSessionDuration
         /\ intervalRef' = b.intervalRef
         /\ liveIntervals' = b.liveIntervals
         /\ storage' = b.storage
         /\ nextUuid' = b.nextUuid
         /\ now' = b.now
         /\ last' = b.last
         /\ UNCHANGED outside

\* The first load of the page, with storage st.
InitFrom(st, uuid, t) ==
  LET b == PageLoad(st, uuid, t, "load", NoRender)
  IN  /\ phase = b.phase
      /\ tasks = b.tasks
      /\ activeTaskId = b.activeTaskId
      /\ startTime = b.startTime
      /\ currentSessionDuration = b.currentSessionDuration
      /\ intervalRef = b.intervalRef
      /\ liveIntervals = b.liveIntervals
      /\ storage = b.storage
      /\ nextUuid = b.nextUuid
      /\ now = b.now
      /\ last = b.last

\* The parts outside App.tsx at rest: Stats is not shown (period is App's
\* initial Period.Today), no insight call, no calendar computation.
StatsUnmounted ==
  /\ period = "Today"
  /\ dateCursor = null
  /\ data = <<>>
  /\ totalTime = 0

Init ==
  /\ InitFrom(EmptyStorage, 1, 1)
  /\ insight = NotCalled
  /\ cal = NoCal
  /\ StatsUnmounted

Next ==
  \/ AddTask
  \/ DeleteTask
  \/ StopTimer
  \/ ToggleTimer
  \/ IntervalTick
  \/ AdvanceClock
  \/ Unmount
  \/ Reload

Spec == Init /\ [][Next]_vars

\* ------------------------------------------------------------------ arbitrary storage
\* A task list an earlier page may have persisted: ids 1 and 2 are tasks, id 3
\* is a session of task 2.
PersistedTasks ==
  << [id |-> 1, title |-> "Reading", color |-> COLORS[1], sessions |-> <<>>,
      createdAt |-> 1],
     [id |-> 2, title |-> "Reading", color |-> COLORS[1],
      sessions |-> << [id |-> 3, startTime |-> 1, endTime |-> 1, duration |-> 0] >>,
      createdAt |-> 1] >>

\* The ids in PersistedTasks are the first three randomUUID gave out.
FirstFreeUuid == 1 + Len(PersistedTasks) + Len(PersistedTasks[2].sessions)

\* What the three keys may hold when the page loads: nothing, the empty
\* string, a text that is no JSON, a persisted task list; nothing or an id;
\* nothing, a text that is no number, an instant.
StoredTasksItems ==
  {NoTasksItem, Holds([kind |-> "empty", items |-> <<>>]),
   Holds([kind |-> "invalid", items |-> <<>>]), Holds(JSONstringify(PersistedTasks))}

StoredIdItems == {NoIdItem, Holds(1)}

StoredTimeItems == {NoTimeItem, Holds(<<"x">>), Holds(toString(1))}

\* The page loads on whatever the storage holds; randomUUID has already
\* given out the ids found there.
InitLoad ==
  /\ \E ti \in StoredTasksItems, ii \in StoredIdItems, si \in StoredTimeItems :
       InitFrom([focusflow_tasks |-> ti, focusflow_active_id |-> ii,
                 focusflow_start_time |-> si], FirstFreeUuid, 1)
  /\ insight = NotCalled
  /\ cal = NoCal
  /\ StatsUnmounted

SpecLoad == InitLoad /\ [][Next]_vars

\* One call of generateProductivityInsight, beside an application that rests.
InitInsight ==
  /\ InitFrom(EmptyStorage, 1, 1)
  /\ cal = NoCal
  /\ StatsUnmounted
  /\ \E k \in ApiKeys, ts \in InsightTaskLists, p \in PeriodLabels :
       insight = [NotCalled EXCEPT !.pc = "called", !.apiKey = k, !.tasks = ts,
                                   !.period = p]

NextInsight ==
  \/ InsightCall
  \/ InsightSettle

SpecInsight == InitInsight /\ [][NextInsight]_vars

\* ------------------------------------------------------------------ calendar runs
\* The dates the week functions are applied to: every instant of the days
\* from 1 January 1970 on.
DateInputs ==
  {d * TicksPerDay + tod : d \in 0..MaxCalDay, tod \in 0..(TicksPerDay - 1)}

InitCal ==
  /\ InitFrom(EmptyStorage, 1, 1)
  /\ insight = NotCalled
  /\ StatsUnmounted
  /\ \E d \in DateInputs : cal = [NoCal EXCEPT !.date = d]

CalStartOfWeek ==
  /\ "getStartOfWeek" \notin cal.applied
  /\ cal' = [cal EXCEPT !.startOfWeek = getStartOfWeek(cal.date),
                        !.applied = @ \cup {"getStartOfWeek"}]
  /\ UNCHANGED <<appVars, insight, statsVars>>

CalEndOfWeek ==
  /\ "getEndOfWeek" \notin cal.applied
  /\ cal' = [cal EXCEPT !.endOfWeek = getEndOfWeek(cal.date),
                        !.applied = @ \cup {"getEndOfWeek"}]
  /\ UNCHANGED <<appVars, insight, statsVars>>

NextCal ==
  \/ CalStartOfWeek
  \/ CalEndOfWeek

SpecCal == InitCal /\ [][NextCal]_vars

\* ------------------------------------------------------------------ grid runs
\* The months the date picker may show.
GridYears == 1969..MaxGridYear

\* No grid has been computed for the month.
NoGrid(year, month) == [year |-> year, month |-> month, grid |-> <<>>, applied |-> {}]

InitGrid ==
  /\ InitFrom(EmptyStorage, 1, 1)
  /\ insight = NotCalled
  /\ StatsUnmounted
  /\ \E year \in GridYears, month \in 0..11 : cal = NoGrid(year, month)

CalGrid ==
  /\ cal.applied = {}
  /\ cal' = [cal EXCEPT !.grid = getCalendarGrid(cal.year, cal.month),
                        !.applied = {"getCalendarGrid"}]
  /\ UNCHANGED <<appVars, insight, statsVars>>

NextGrid == CalGrid

SpecGrid == InitGrid /\ [][NextGrid]_vars

\* ------------------------------------------------------------------ Stats runs
\* The instant of 1 January 1971, 00:00 (a Friday).
NewYear == YearStart(1971) * TicksPerDay

\* Recorded sessions around the turn of the year, none overlapping another:
\* 31 December 23:59:59.999 into 1 January; 1 January from 00:00; an empty
\* one on 1 January; Sunday 3 January 23:59:59.999 into Monday; Monday 4
\* January from 00:00.  And a session that was never closed.
SessionPool ==
  [lastNight |-> [id |-> 11, startTime |-> NewYear - 1, endTime |-> NewYear,
                  duration |-> 1],
   newYear |-> [id |-> 12, startTime |-> NewYear, endTime |-> NewYear + 1,
                duration |-> 1],
   empty |-> [id |-> 13, startTime |-> NewYear + 1, endTime |-> NewYear + 1,
              duration |-> 0],
   sunday |-> [id |-> 14, startTime |-> NewYear + 3 * TicksPerDay - 1,
               endTime |-> NewYear + 3 * TicksPerDay, duration |-> 1],
   monday |-> [id |-> 15, startTime |-> NewYear + 3 * TicksPerDay,
               endTime |-> NewYear + 3 * TicksPerDay + 2, duration |-> 2],
   open |-> [id |-> 16, startTime |-> NewYear + 4 * TicksPerDay, endTime |-> null,
             duration |-> 5]]

StatSessionLists ==
  {<<>>, <<SessionPool.lastNight>>, <<SessionPool.newYear>>, <<SessionPool.empty>>,
   <<SessionPool.lastNight, SessionPool.sunday>>,
   <<SessionPool.newYear, SessionPool.open>>,
   <<SessionPool.sunday, SessionPool.monday>>}

SessionIds(sessions) == {sessions[i].id : i \in 1..Len(sessions)}

\* Task lists for Stats: tasks 1..n, each with one of the session lists, no
\* session in two tasks.
StatTaskLists ==
  UNION {
    {ts \in [1..n -> [id : 1..n, title : {"Reading"}, color : {COLORS[1]},
                      sessions : StatSessionLists, createdAt : {1}]] :
       /\ \A i \in 1..n : ts[i].id = i
       /\ \A i, j \in 1..n :
            i # j => SessionIds(ts[i].sessions) \cap SessionIds(ts[j].sessions) = {}}
    : n \in 0..MaxStatTasks}

\* new Date() while Stats is shown: Saturday 2 January 1971, midday.
StatsToday == NewYear + TicksPerDay + 1

\* The days the cursor may be moved to.
CursorInRange(c) ==
  /\ Day(c) >= YearStart(1971) - CursorSpan
  /\ Day(c) <= YearStart(1971) + CursorSpan

\* The dates picked in the date picker: 31 December, 1 and 31 January.
PickedDates ==
  {MakeDate(1970, 11, 31, 0), MakeDate(1971, 0, 1, 0), MakeDate(1971, 0, 31, 0)}

\* Stats is shown over the tasks ts with period p.
InitStats ==
  /\ \E ts \in StatTaskLists :
       InitFrom([EmptyStorage EXCEPT !.focusflow_tasks = Holds(JSONstringify(ts))],
                20, StatsToday)
  /\ insight = NotCalled
  /\ cal = NoCal
  /\ period \in Periods
  /\ dateCursor = now
  /\ data = Data(tasks, period, dateCursor)
  /\ totalTime = TotalTime(data)

\* Stats renders with period p and cursor c.
StatsRender(p, c) ==
  /\ dateCursor # null
  /\ CursorInRange(c)
  /\ period' = p
  /\ dateCursor' = c
  /\ data' = Data(tasks, p, c)
  /\ totalTime' = TotalTime(data')
  /\ UNCHANGED <<appVars, insight, cal>>

\* setPeriod(p): a changed period resets the cursor to new Date().
SetPeriod ==
  \E p \in Periods : StatsRender(p, IF p # period THEN now ELSE dateCursor)

handlePrev(c, p) ==
  CASE p = "Today" -> setDate(c, getDate(c) - 1)
    [] p = "Week" -> setDate(c, getDate(c) - 7)
    [] p = "Month" -> setMonth(c, getMonth(c) - 1)
    [] OTHER -> c

handleNext(c, p) ==
  CASE p = "Today" -> setDate(c, getDate(c) + 1)
    [] p = "Week" -> setDate(c, getDate(c) + 7)
    [] p = "Month" -> setMonth(c, getMonth(c) + 1)
    [] OTHER -> c

HandlePrev == StatsRender(period, handlePrev(dateCursor, period))

HandleNext == StatsRender(period, handleNext(dateCursor, period))

HandleDateSelect == \E date \in PickedDates : StatsRender(period, date)

NextStats ==
  \/ SetPeriod
  \/ HandlePrev
  \/ HandleNext
  \/ HandleDateSelect

SpecStats == InitStats /\ [][NextStats]_vars

\* ------------------------------------------------------------------ both views
\* App shows either the task list (view = 'tasks': Stats is not mounted, the
\* cursor is null) or Stats (view = 'stats'); the timer buttons, the add form
\* and the trash buttons are in the task list.
TasksView == dateCursor = null

\* The bottom bar's Stats button: Stats mounts with the cursor at new Date().
ShowStats ==
  /\ phase = "mounted"
  /\ TasksView
  /\ dateCursor' = now
  /\ data' = Data(tasks, period, now)
  /\ totalTime' = TotalTime(data')
  /\ UNCHANGED <<appVars, insight, cal, period>>

\* The bottom bar's Tasks button: Stats unmounts; App keeps the period.
ShowTasks ==
  /\ ~TasksView
  /\ dateCursor' = null
  /\ data' = <<>>
  /\ totalTime' = 0
  /\ UNCHANGED <<appVars, insight, cal, period>>

\* The cursors these runs follow: today and one step from today.
ViewCursors(p) == {now, setHours(now, 0), handlePrev(now, p), handleNext(now, p)}

\* Stats renders with period p and cursor c.
ViewRender(p, c) ==
  /\ ~TasksView
  /\ c \in ViewCursors(p)
  /\ period' = p
  /\ dateCursor' = c
  /\ data' = Data(tasks, p, c)
  /\ totalTime' = TotalTime(data')
  /\ UNCHANGED <<appVars, insight, cal>>

\* The period tabs, the arrows and the date picker (a day cell or "today").
ViewSelect ==
  \/ \E p \in Periods : ViewRender(p, IF p # period THEN now ELSE dateCursor)
  \/ ViewRender(period, handlePrev(dateCursor, period))
  \/ ViewRender(period, handleNext(dateCursor, period))
  \/ \E date \in {now, setHours(now, 0)} : ViewRender(period, date)

InitView == Init

\* The runs with both views give out at most MaxViewUuid ids.
ViewBound == nextUuid' <= MaxViewUuid + 1

\* A reload shows the task list again, so it is taken from there.
NextView ==
  \/ TasksView /\ AddTask /\ ViewBound
  \/ TasksView /\ DeleteTask /\ ViewBound
  \/ TasksView /\ StopTimer /\ ViewBound
  \/ TasksView /\ ToggleTimer /\ ViewBound
  \/ IntervalTick
  \/ AdvanceClock
  \/ TasksView /\ Unmount
  \/ TasksView /\ Reload
  \/ ShowStats
  \/ ShowTasks
  \/ ViewSelect

SpecView == InitView /\ [][NextView]_vars

\* ------------------------------------------------------------------ properties
\* The session lists and fields of the tasks other than the task id are as
\* they were before the latest operation, in the same order.
OthersUntouched(id) ==
  /\ Len(tasks) = Len(last.pre.tasks)
  /\ \A i \in 1..Len(tasks) :
       IF last.pre.tasks[i].id = id
       THEN /\ tasks[i].id = id
            /\ tasks[i].title = last.pre.tasks[i].title
            /\ tasks[i].color = last.pre.tasks[i].color
            /\ tasks[i].createdAt = last.pre.tasks[i].createdAt
       ELSE tasks[i] = last.pre.tasks[i]

\* The task id has gained exactly one session, the closed session from s to n,
\* at the end of its list.
GainedSession(id, s, n) ==
  \A i \in 1..Len(tasks) :
    (Len(last.pre.tasks) = Len(tasks) /\ last.pre.tasks[i].id = id) =>
      LET old == last.pre.tasks[i].sessions
          new == tasks[i].sessions
      IN  /\ Len(new) = Len(old) + 1
          /\ SubSeq(new, 1, Len(old)) = old
          /\ new[Len(new)].startTime = s
          /\ new[Len(new)].endTime = n
          /\ new[Len(new)].duration = n - s

\* The latest operation ran in the state Running(_, _).
WasRunning == Truthy(last.pre.activeTaskId) /\ Truthy(last.pre.startTime)

\* The latest operation was start(B) for a task B other than the running one.
StartedOther ==
  /\ last.op = "toggle"
  /\ WasRunning
  /\ last.arg # last.pre.activeTaskId

\* The latest operation was stop(): directly, or by the button of the active task.
Stopped ==
  \/ last.op = "stop"
  \/ last.op = "toggle" /\ last.arg = last.pre.activeTaskId

\* C1: start(B) in Running(A, s), A # B, whose stop reads the clock at n: A
\* gains exactly the closed session {s, n, n - s}, no other task changes, and
\* the state is Running(B, n') where n' >= n is the instant start(B) reads next
\* (n' = n when the handler runs within one instant).
C1_StartStopsTheOther ==
  StartedOther =>
    /\ OthersUntouched(last.pre.activeTaskId)
    /\ GainedSession(last.pre.activeTaskId, last.pre.startTime, last.at)
    /\ activeTaskId = last.arg
    /\ startTime = last.ret
    /\ last.ret >= last.at
    /\ last.ret <= last.at + MaxClockStep

\* start(A) then start(B) from Idle, within one instant each: one closed
\* session for A, none for B, Running(B).
C1_Witness ==
  /\ StartedOther
  /\ last.ret = last.at
  /\ Len(tasks) = 2
  /\ \E i, j \in 1..2 :
       /\ tasks[i].id = last.pre.activeTaskId
       /\ Len(tasks[i].sessions) = 1
       /\ tasks[i].sessions[1].duration = 1
       /\ tasks[j].id = last.arg
       /\ tasks[j].sessions = <<>>
  /\ activeTaskId = last.arg
  /\ startTime = last.at

\* C2: stop() in Running(t, s) at n appends exactly {s, n, n - s} to t and
\* gives Idle, whatever the last polled elapsed value; stop() in Idle changes
\* nothing.
C2_StopRecordsOrIsNoOp ==
  Stopped =>
    IF WasRunning
    THEN /\ OthersUntouched(last.pre.activeTaskId)
         /\ GainedSession(last.pre.activeTaskId, last.pre.startTime, last.at)
         /\ activeTaskId = null
         /\ startTime = null
    ELSE /\ tasks = last.pre.tasks
         /\ activeTaskId = last.pre.activeTaskId
         /\ startTime = last.pre.startTime

\* A stop whose stored duration differs from the last polled elapsed value.
C2_Witness ==
  /\ last.op = "stop"
  /\ WasRunning
  /\ last.pre.currentSessionDuration # last.at - last.pre.startTime
  /\ \E i \in 1..Len(tasks) :
       /\ tasks[i].id = last.pre.activeTaskId
       /\ tasks[i].sessions # <<>>
       /\ tasks[i].sessions[Len(tasks[i].sessions)].duration
            = last.at - last.pre.startTime
  /\ activeTaskId = null

\* The tasks are those before the latest operation without the task id, in
\* the same order.
RemovedOnly(id) ==
  \E k \in 1..Len(last.pre.tasks) :
    /\ last.pre.tasks[k].id = id
    /\ Len(tasks) = Len(last.pre.tasks) - 1
    /\ \A i \in 1..Len(tasks) :
         tasks[i] = IF i < k THEN last.pre.tasks[i] ELSE last.pre.tasks[i + 1]

\* C3: deleteTask(id) removes the task id with all its sessions and keeps the
\* other tasks in order; the state is Idle if id was active, else unchanged.
C3_DeleteRemovesAndStops ==
  last.op = "delete" =>
    /\ last.arg \notin TaskIds(tasks)
    /\ RemovedOnly(last.arg)
    /\ IF last.pre.activeTaskId = last.arg
       THEN activeTaskId = null /\ startTime = null
       ELSE activeTaskId = last.pre.activeTaskId /\ startTime = last.pre.startTime

\* The active task, running for a while, is deleted while another remains.
C3_Witness ==
  /\ last.op = "delete"
  /\ WasRunning
  /\ last.pre.activeTaskId = last.arg
  /\ last.at > last.pre.startTime
  /\ Len(last.pre.tasks) = 2
  /\ Len(tasks) = 1
  /\ activeTaskId = null
  /\ startTime = null

\* The tick's elapsed value and the reload's state.
\* C7: a reload rehydrates exactly (tasks, activeTaskId, startTime); every
\* tick computes the elapsed time as the clock minus the start instant, and a
\* stop right after a reload records a session from the start instant that
\* was persisted to the instant of the stop.
C7_ReloadRoundTrip ==
  /\ last.op = "reload" =>
       /\ phase = "mounted"
       /\ tasks = last.pre.tasks
       /\ activeTaskId = last.pre.activeTaskId
       /\ startTime = last.pre.startTime
  /\ last.op = "tick" =>
       /\ currentSessionDuration = last.at - startTime
       /\ Truthy(activeTaskId)
  /\ (Stopped /\ last.afterReload /\ WasRunning) =>
       GainedSession(last.pre.activeTaskId, last.pre.startTime, last.at)

\* A timer that was started earlier is still running after a reload of a page
\* that also holds a recorded session.
C7_Witness ==
  /\ last.op = "reload"
  /\ Truthy(activeTaskId)
  /\ Truthy(startTime)
  /\ startTime < now
  /\ activeTaskId \in TaskIds(tasks)
  /\ \E i \in 1..Len(tasks) : tasks[i].sessions # <<>>
  /\ \E iv \in liveIntervals : iv.startTime = startTime

\* ------------------------------------------------------------------ load
\* The row of a task is drawn as the active one.
ShownActive(id) == activeTaskId = id

\* One of activeTaskId and startTime is present and the other is absent.
HalfRunning(a, s) ==
  \/ Truthy(a) /\ s = null
  \/ a = null /\ Truthy(s)

\* C4: a load that finds only one of activeTaskId and startTime gives Idle: no
\* task is shown as active, toggleTimer(t) starts t, and deleteTask leaves no
\* active id without a task.
C4_HalfStateIsIdle ==
  /\ (phase = "mounted" /\ last.op \in {"load", "reload"}
        /\ HalfRunning(activeTaskId, startTime)) =>
       \A id \in TaskIds(tasks) : ~ShownActive(id)
  /\ (last.op = "toggle" /\ HalfRunning(last.pre.activeTaskId, last.pre.startTime)) =>
       activeTaskId = last.arg /\ startTime = last.ret
  /\ (last.op = "delete" /\ HalfRunning(last.pre.activeTaskId, last.pre.startTime)) =>
       (Truthy(activeTaskId) => activeTaskId \in TaskIds(tasks))
  /\ HalfRunning(last.pre.activeTaskId, last.pre.startTime) => phase # "crashed"

\* C5: whatever the three keys hold, the load completes.
C5_LoadNeverFails ==
  last.op \in {"load", "reload"} => phase = "mounted"

\* ------------------------------------------------------------------ insight
\* C6: generateProductivityInsight never rejects: when it is done its promise
\* is resolved, with a fallback text on a failure, after at most one request.
C6_InsightNeverRejects ==
  insight.pc = "done" =>
    /\ insight.result.kind = "resolved"
    /\ insight.requests <= 1

\* ------------------------------------------------------------------ aggregator
\* The position of the task with this id in the task collection.
IndexOfTask(id) == CHOOSE i \in 1..Len(tasks) : tasks[i].id = id

\* The periodDuration of the i-th task for the shown period and cursor.
PeriodDurationOf(i) == withPeriodDuration(tasks[i], period, dateCursor).periodDuration

RECURSIVE SumOver(_, _)
\* The sum of f over the finite set S.
SumOver(S, f) ==
  IF S = {} THEN 0
  ELSE LET x == CHOOSE x \in S : TRUE IN f[x] + SumOver(S \ {x}, f)

\* C8: the output holds exactly the tasks with periodDuration > 0, each once,
\* by descending periodDuration, equal ones in collection order; the grand
\* total is the sum of the periodDuration values of the output.
C8_OutputFilteredSortedStable ==
  dateCursor # null =>
    /\ \A i \in 1..Len(tasks) :
         (PeriodDurationOf(i) > 0) <=> (\E k \in 1..Len(data) : data[k].id = tasks[i].id)
    /\ Len(data) = Cardinality({i \in 1..Len(tasks) : PeriodDurationOf(i) > 0})
    /\ \A k \in 1..Len(data) :
         /\ data[k].id \in TaskIds(tasks)
         /\ data[k].periodDuration = PeriodDurationOf(IndexOfTask(data[k].id))
         /\ data[k].sessions = tasks[IndexOfTask(data[k].id)].sessions
    /\ \A k, l \in 1..Len(data) :
         k < l =>
           \/ data[k].periodDuration > data[l].periodDuration
           \/ /\ data[k].periodDuration = data[l].periodDuration
              /\ IndexOfTask(data[k].id) < IndexOfTask(data[l].id)
    /\ totalTime = SumOver(1..Len(data), [k \in 1..Len(data) |-> data[k].periodDuration])

\* Two tasks tie in the week that holds both their sessions.
C8_Witness ==
  /\ dateCursor # null
  /\ Len(tasks) = 2
  /\ Len(data) = 2
  /\ data[1].periodDuration = data[2].periodDuration
  /\ data[1].id = tasks[1].id
  /\ totalTime = 2

\* The window of the period at the cursor.
WindowStart ==
  CASE period = "Today" -> Day(dateCursor) * TicksPerDay
    [] period = "Week" -> getStartOfWeek(dateCursor)
    [] period = "Month" -> getStartOfMonth(dateCursor)

WindowEnd ==
  CASE period = "Today" -> Day(dateCursor) * TicksPerDay + EndOfDayTime
    [] period = "Week" -> getEndOfWeek(dateCursor)
    [] period = "Month" -> getEndOfMonth(dateCursor)

\* The sum of the durations of the closed sessions of the i-th task that
\* start within the window.
WindowedDuration(i) ==
  LET ss == tasks[i].sessions
      counted == {j \in 1..Len(ss) :
                    /\ ss[j].endTime # null
                    /\ ss[j].startTime >= WindowStart
                    /\ ss[j].startTime <= WindowEnd}
  IN  SumOver(counted, [j \in 1..Len(ss) |-> ss[j].duration])

\* C9: the periodDuration of a task is the sum of the durations of its closed
\* sessions whose startTime lies in the window of the period at the cursor
\* (a task whose sum is not positive is not in the output).
C9_PeriodDurationByStart ==
  dateCursor # null =>
    \A i \in 1..Len(tasks) :
      IF WindowedDuration(i) > 0
      THEN \E k \in 1..Len(data) :
             /\ data[k].id = tasks[i].id
             /\ data[k].periodDuration = WindowedDuration(i)
      ELSE \A k \in 1..Len(data) : data[k].id # tasks[i].id

\* Today at 31 December: of a task's two sessions, the one that starts that
\* night and ends on 1 January counts in full, the one of 3 January does not.
C9_Witness ==
  /\ dateCursor # null
  /\ period = "Today"
  /\ Day(dateCursor) = YearStart(1971) - 1
  /\ \E i \in 1..Len(tasks) :
       /\ tasks[i].sessions = <<SessionPool.lastNight, SessionPool.sunday>>
       /\ \E k \in 1..Len(data) :
            data[k].id = tasks[i].id /\ data[k].periodDuration = 1

\* ------------------------------------------------------------------ calendar
\* C10: getStartOfWeek(d) <= d <= getEndOfWeek(d); the start is a Monday at
\* 00:00:00.000, the end a Sunday at 23:59:59.999, 6 days 23:59:59.999 later.
C10_WeekBounds ==
  cal.applied = {"getStartOfWeek", "getEndOfWeek"} =>
    /\ cal.startOfWeek <= cal.date
    /\ cal.date <= cal.endOfWeek
    /\ (Day(cal.startOfWeek) - 4) % 7 = 0
    /\ TimeOfDay(cal.startOfWeek) = 0
    /\ (Day(cal.endOfWeek) - 3) % 7 = 0
    /\ TimeOfDay(cal.endOfWeek) = EndOfDayTime
    /\ cal.endOfWeek - cal.startOfWeek = 6 * TicksPerDay + EndOfDayTime

\* Sunday 3 January 1971: its week began on Monday 28 December 1970.
C10_Witness ==
  /\ cal.applied = {"getStartOfWeek", "getEndOfWeek"}
  /\ cal.date = MakeDate(1971, 0, 3, 1)
  /\ cal.startOfWeek = MakeDate(1970, 11, 28, 0)
  /\ cal.endOfWeek = MakeDate(1971, 0, 3, EndOfDayTime)

\* The number of days of the month the grid was asked for.
RequestedMonthLength ==
  DaysBeforeMonth(cal.month + 1, IsLeap(cal.year))
    - DaysBeforeMonth(cal.month, IsLeap(cal.year))

\* C11: the grid has exactly 42 dates; its first cell is the Sunday on or
\* before the 1st of the requested month, which is therefore one of the first
\* seven cells; each cell is the calendar day after the one before it; and
\* every day of the requested month is in exactly one cell.
C11_GridOfFortyTwoDays ==
  cal.applied = {"getCalendarGrid"} =>
    LET g == cal.grid
        first == MakeDate(cal.year, cal.month, 1, 0)
    IN  /\ Len(g) = 42
        /\ getDay(g[1]) = 0
        /\ g[1] <= first
        /\ first - g[1] <= 6 * TicksPerDay
        /\ \E k \in 1..7 : g[k] = first
        /\ \A i \in 1..41 : Day(g[i + 1]) = Day(g[i]) + 1
        /\ \A i \in 1..42 : TimeOfDay(g[i]) = 0
        /\ \A date \in 1..RequestedMonthLength :
             Cardinality({i \in 1..42 :
                            /\ getFullYear(g[i]) = cal.year
                            /\ getMonth(g[i]) = cal.month
                            /\ getDate(g[i]) = date}) = 1
        /\ Cardinality({i \in 1..42 : getFullYear(g[i]) = cal.year
                                       /\ getMonth(g[i]) = cal.month})
             = RequestedMonthLength

\* January 1971 (the 1st is a Friday): the grid runs from Sunday 27 December
\* 1970 to Saturday 6 February 1971, the 1st is cell 5.
C11_Witness ==
  /\ cal.applied = {"getCalendarGrid"}
  /\ cal.year = 1971
  /\ cal.month = 0
  /\ cal.grid[1] = MakeDate(1970, 11, 27, 0)
  /\ cal.grid[6] = MakeDate(1971, 0, 1, 0)
  /\ cal.grid[42] = MakeDate(1971, 1, 6, 0)

\* ------------------------------------------------------------------ refresh timer
\* The state is Running(_, _).
IsRunning == Truthy(activeTaskId) /\ Truthy(startTime)

\* C12: while a task is active on a mounted page exactly one refresh interval
\* is live, the one intervalRef names, and it closes over the current start
\* instant; no interval is live when the state is Idle or the page is
\* unmounted; and a tick computes the elapsed time from the current start
\* instant.
C12_OneRefreshInterval ==
  /\ Cardinality(liveIntervals) <= 1
  /\ (phase = "mounted" /\ IsRunning) =>
       liveIntervals = {[handle |-> intervalRef, startTime |-> startTime]}
  /\ (phase # "mounted" \/ ~IsRunning) => liveIntervals = {}
  /\ last.op = "tick" =>
       /\ IsRunning
       /\ last.arg = startTime
       /\ currentSessionDuration = last.at - startTime

\* A switch from a task started earlier to another task: the only live
\* interval is a new one, for the new start instant.
C12_Witness ==
  /\ StartedOther
  /\ last.pre.startTime < startTime
  /\ IsRunning
  /\ liveIntervals = {[handle |-> intervalRef, startTime |-> startTime]}
  /\ intervalRef = 2

\* ------------------------------------------------------------------ sessions
\* Every session of every task of the list ts satisfies P.
AllSessions(ts, P(_)) ==
  \A i \in 1..Len(ts) : \A j \in 1..Len(ts[i].sessions) : P(ts[i].sessions[j])

\* The session has both its instants and its duration is their difference.
Closed(s) ==
  /\ s.startTime # null /\ s.startTime # NaN
  /\ s.endTime # null /\ s.endTime # NaN
  /\ s.duration = s.endTime - s.startTime

\* C13: every stored session is closed with duration = endTime - startTime;
\* starting a task stores nothing for it: the session in progress is only the
\* pair (activeTaskId, startTime) until it is stopped.
C13_StoredSessionsClosed ==
  /\ AllSessions(tasks, Closed)
  /\ (last.op = "toggle" /\ ~WasRunning /\ last.arg # last.pre.activeTaskId) =>
       /\ tasks = last.pre.tasks
       /\ activeTaskId = last.arg
       /\ startTime = last.ret

\* A task that has a recorded session of positive length is started again:
\* its list still holds only the closed session.
C13_Witness ==
  /\ last.op = "toggle"
  /\ ~WasRunning
  /\ IsRunning
  /\ \E i \in 1..Len(tasks) :
       /\ tasks[i].id = activeTaskId
       /\ Len(tasks[i].sessions) = 1
       /\ tasks[i].sessions[1].duration > 0
       /\ tasks[i].sessions[1].endTime <= startTime

\* ------------------------------------------------------------------ frame
\* The task with this id in the list ts.
TaskWithId(ts, id) == ts[CHOOSE i \in 1..Len(ts) : ts[i].id = id]

\* What one step may do to the task t: nothing; or, if t was the running task
\* and the step is a stop or a toggle, append one closed session that began at
\* the start instant; or, if the step deletes t, remove it.
TaskFrame(t) ==
  IF t.id \in TaskIds(tasks')
  THEN LET u == TaskWithId(tasks', t.id)
       IN  /\ u.title = t.title
           /\ u.color = t.color
           /\ u.createdAt = t.createdAt
           /\ \/ u.sessions = t.sessions
              \/ /\ activeTaskId = t.id
                 /\ Truthy(startTime)
                 /\ activeTaskId' # t.id
                 /\ last'.op \in {"stop", "toggle"}
                 /\ Len(u.sessions) = Len(t.sessions) + 1
                 /\ SubSeq(u.sessions, 1, Len(t.sessions)) = t.sessions
                 /\ Closed(u.sessions[Len(u.sessions)])
                 /\ u.sessions[Len(u.sessions)].startTime = startTime
  ELSE last'.op = "delete" /\ last'.arg = t.id

\* C14: in every step each task keeps its id, title, color and createdAt and
\* its stored sessions, in order; its session list only grows, by one closed
\* session at the end, when it is the running task and is stopped (by stop or
\* by the start of another task); a task leaves the collection only by its
\* deletion and enters it only by add, with no sessions; the steps of the
\* Stats view (period, arrows, date picker) leave the collection unchanged.
C14_SessionFrame ==
  [][ /\ \A i \in 1..Len(tasks) : TaskFrame(tasks[i])
      /\ \A j \in 1..Len(tasks') :
           tasks'[j].id \notin TaskIds(tasks) =>
             last'.op = "add" /\ tasks'[j].sessions = <<>>
      /\ Cardinality(TaskIds(tasks')) = Len(tasks')
      /\ (last' = last \/ last'.op \in {"add", "tick", "unmount", "reload"}) =>
           \A i \in 1..Len(tasks) :
             /\ tasks[i].id \in TaskIds(tasks')
             /\ TaskWithId(tasks', tasks[i].id) = tasks[i]
      /\ (last'.op = "toggle" /\ ~IsRunning) => tasks' = tasks
    ]_vars

\* Stats is shown, on another period or date than it opened with, over a task
\* that has been stopped twice: its two sessions are in the order recorded.
C14_Witness ==
  /\ ~TasksView
  /\ (period # "Today" \/ dateCursor # now)
  /\ \E i \in 1..Len(tasks) :
       /\ Len(tasks[i].sessions) = 2
       /\ tasks[i].sessions[1].endTime <= tasks[i].sessions[2].startTime
       /\ tasks[i].sessions[1].id < tasks[i].sessions[2].id

\* ------------------------------------------------------------------ active pair
\* C15: activeTaskId is set exactly when startTime is set; when set it is the
\* id of a task of the collection, so at most one task is shown as active;
\* and the two storage keys are present together.
C15_ActivePairConsistent ==
  /\ (activeTaskId # null) <=> (startTime # null)
  /\ activeTaskId # null =>
       /\ Truthy(activeTaskId)
       /\ Truthy(startTime)
       /\ activeTaskId \in TaskIds(tasks)
  /\ Cardinality({i \in 1..Len(tasks) : ShownActive(tasks[i].id)}) <= 1
  /\ Cardinality(TaskIds(tasks)) = Len(tasks)
  /\ storage.focusflow_active_id.present <=> storage.focusflow_start_time.present
  /\ phase # "crashed"

\* While one task runs the other one is deleted: the remaining task is still
\* the active one, in the state and in storage.
C15_Witness ==
  /\ last.op = "delete"
  /\ WasRunning
  /\ last.arg # last.pre.activeTaskId
  /\ Len(tasks) = 1
  /\ activeTaskId = tasks[1].id
  /\ startTime = last.pre.startTime
  /\ storage.focusflow_active_id = Holds(activeTaskId)
  /\ storage.focusflow_start_time = Holds(toString(startTime))

\* ------------------------------------------------------------------ chronology
\* The places of the stored sessions: task index and index in its list.
SessionPlaces ==
  {<<i, j>> : i \in 1..Len(tasks), j \in 1..MaxUuid} \cap
  {pl \in (1..Len(tasks)) \X (1..MaxUuid) : pl[2] <= Len(tasks[pl[1]].sessions)}

SessionAt(pl) == tasks[pl[1]].sessions[pl[2]]

\* C16: with a clock that never goes back, the sessions of a task are in
\* chronological order, no duration is negative, no two stored sessions
\* overlap, and none overlaps the running interval [startTime, now].
C16_SessionsDisjoint ==
  /\ \A i \in 1..Len(tasks) : \A j \in 1..(Len(tasks[i].sessions) - 1) :
       tasks[i].sessions[j + 1].startTime >= tasks[i].sessions[j].endTime
  /\ \A pl \in SessionPlaces :
       /\ SessionAt(pl).duration >= 0
       /\ SessionAt(pl).startTime <= SessionAt(pl).endTime
       /\ SessionAt(pl).endTime <= now
       /\ IsRunning => SessionAt(pl).endTime <= startTime
  /\ \A pl, pm \in SessionPlaces :
       pl # pm =>
         \/ SessionAt(pl).endTime <= SessionAt(pm).startTime
         \/ SessionAt(pm).endTime <= SessionAt(pl).startTime
  /\ IsRunning => startTime <= now

\* Two tasks each hold one session, the second recorded by the stop of the
\* task that was started when the first, of positive length, was closed.
C16_Witness ==
  /\ Stopped
  /\ WasRunning
  /\ Len(tasks) = 2
  /\ \A i \in 1..2 : Len(tasks[i].sessions) = 1
  /\ \E i, k \in 1..2 :
       /\ tasks[k].id = last.pre.activeTaskId
       /\ tasks[i].sessions[1].duration > 0
       /\ tasks[i].sessions[1].endTime = tasks[k].sessions[1].startTime

\* ------------------------------------------------------------------ navigation
\* The first and the last instant of the period p that holds the cursor c.
PeriodWindow(p, c) ==
  CASE p = "Today" -> <<setHours(c, 0), setHours(c, EndOfDayTime)>>
    [] p = "Week" -> <<getStartOfWeek(c), getEndOfWeek(c)>>
    [] p = "Month" -> <<getStartOfMonth(c), getEndOfMonth(c)>>

\* C17: handleNext moves the cursor into the period right after the one it
\* was in, handlePrev into the one right before, and handlePrev after
\* handleNext is back in the original period.
C17_NavigationAdjacent ==
  [][ /\ HandleNext =>
           /\ PeriodWindow(period, dateCursor')[1]
                = PeriodWindow(period, dateCursor)[2] + 1
           /\ PeriodWindow(period, handlePrev(dateCursor', period))
                = PeriodWindow(period, dateCursor)
      /\ HandlePrev =>
           PeriodWindow(period, dateCursor')[2] + 1
             = PeriodWindow(period, dateCursor)[1]
    ]_vars

====
